---- MODULE Spec2Model ----
(***************************************************************************)
(* Device / AiMesh-node reconciliation of the AsusRouter integration       *)
(* (custom_components/asusrouter/router.py): the client and node maps, the *)
(* bounded latest-connected history, the aggregate sensors, the values     *)
(* published to the sensor handler and the connect-error flag.             *)
(***************************************************************************)
EXTENDS Integers, Sequences, FiniteSets, TLC

(* ------------------------------ bounds --------------------------------- *)
\* Largest configured CONF_LATEST_CONNECTED that is explored (0..MaxLatest).
MaxLatest == 1
\* The same for the direct connected_device calls (0..MaxCallLatest).
MaxCallLatest == 2
\* Connection timestamps reported by the router are 1..MaxStamp.
MaxStamp == 1
\* Connection timestamps used by direct connected_device calls: 1..MaxCallStamp.
MaxCallStamp == 3
\* The clock runs from 0 to MaxTime. Time is counted in polls: every fetched
\* client snapshot is one unit later than the one before.
MaxTime == 2
\* Longest client snapshot (number of entries) a fetch returns.
MaxSnap == 2
\* Longest AiMesh snapshot a fetch returns.
MaxNodeSnap == 1
\* Largest configured consider-home window (0..MaxWindow).
MaxWindow == 1
\* The clock bound of the longer runs (SpecDeep): one more poll than MaxTime.
MaxDeepTime == 3

(* ----------------------------- constants ------------------------------- *)
\* Optional[datetime] None (router.py: _latest_connected: datetime | None).
NoStamp == 0
\* A missing / empty MAC: identity.get(MAC, None) is falsy.
NoMac == ""

ROUTER == "router"
ACCESS_POINT == "access_point"
MEDIA_BRIDGE == "media_bridge"
AIMESH_NODE == "aimesh_node"
Modes == {ROUTER, ACCESS_POINT, MEDIA_BRIDGE, AIMESH_NODE}
TrackingModes == {ACCESS_POINT, MEDIA_BRIDGE, ROUTER}

DEVICES == "devices"
AIMESH == "aimesh"

\* The options read by name in router.py: the two event switches and
\* CONF_TRACK_DEVICES. An option is absent (<<>>) or holds a boolean (<<b>>).
DEVICE_CONNECTED == "device_connected"
CONF_EVENT_NODE_CONNECTED == "node_connected"
CONF_TRACK_DEVICES == "track_devices"
OptionNames == {DEVICE_CONNECTED, CONF_EVENT_NODE_CONNECTED, CONF_TRACK_DEVICES}
OptionValues == {<<>>, <<TRUE>>, <<FALSE>>}
NoOptions == [n \in OptionNames |-> <<>>]

\* The two options the router reads as numbers, by name.
CONF_LATEST_CONNECTED == "latest_connected"
CONF_CONSIDER_HOME == "consider_home"

\* The dicts handed to update_options, one option each: a number for
\* CONF_LATEST_CONNECTED or CONF_CONSIDER_HOME, a boolean for an event switch
\* or CONF_TRACK_DEVICES.
OptionUpdates ==
  [name : {CONF_LATEST_CONNECTED}, value : 0..MaxLatest]
    \cup [name : {CONF_CONSIDER_HOME}, value : 0..MaxWindow]
    \cup [name : OptionNames, value : BOOLEAN]

\* One update of each kind: no history kept, a consider-home window, the
\* device_connected events switched on.
NoHistory == [name |-> CONF_LATEST_CONNECTED, value |-> 0]
WithWindow == [name |-> CONF_CONSIDER_HOME, value |-> MaxWindow]
WithEvents == [name |-> DEVICE_CONNECTED, value |-> TRUE]

\* MAC addresses as the router library reports them, and the canonical form
\* homeassistant's format_mac gives them (lower case, colon separated).
RawMacs == {"AA:01", "AA-02"}
format_mac(raw) ==
  CASE raw = "AA:01" -> "aa:01"
    [] raw = "aa:01" -> "aa:01"
    [] raw = "AA-02" -> "aa:02"
    [] OTHER -> raw
Macs == {format_mac(r) : r \in RawMacs}
\* MACs of the identities handed to connected_device directly.
CallMacs == {"aa:01", "aa:02", "aa:03"}

VARIABLES
  mode,                   \* ARDevice._mode
  max_latest,             \* _options[CONF_LATEST_CONNECTED]
  consider_home,          \* _options[CONF_CONSIDER_HOME]
  options,                \* _options: the event switches and CONF_TRACK_DEVICES
  horizon,                \* the clock value after which no snapshot is fetched
  updates,                \* the dicts update_options is called with
  clients,                \* ARDevice._clients (insertion-ordered dict)
  aimesh,                 \* ARDevice._aimesh (insertion-ordered dict)
  clients_number,         \* ARDevice._clients_number
  clients_list,           \* ARDevice._clients_list
  aimesh_number,          \* ARDevice._aimesh_number
  aimesh_list,            \* ARDevice._aimesh_list
  latest_connected,       \* ARDevice._latest_connected
  latest_connected_list,  \* ARDevice._latest_connected_list
  connect_error,          \* ARDevice._connect_error
  sensor_handler,         \* ARDevice._sensor_handler (<<>> is None)
  sensor_coordinator,     \* keys of ARDevice._sensor_coordinator
  now,                    \* the clock
  pc,                     \* where the running handler is suspended
  tracker_pc,             \* where a remove_trackers call that runs beside the
                          \* timer's update_all is suspended ("none": no such call)
  last                    \* what the most recent step did (calls, signals, log)

vars == <<mode, max_latest, consider_home, options, horizon, updates,
          clients, aimesh, clients_number,
          clients_list, aimesh_number, aimesh_list, latest_connected,
          latest_connected_list, connect_error, sensor_handler,
          sensor_coordinator, now, pc, tracker_pc, last>>

config == <<mode, max_latest, consider_home, options, horizon, updates>>

(* ------------------------ latest-connected history ---------------------- *)
\* ARDevice.connected_device_time: the sort key of a history entry. An entry
\* without a datetime gets datetime.now(), which is later than every
\* connection time already recorded.
connected_device_time(element) ==
  IF element.connected # NoStamp THEN element.connected
  ELSE MaxStamp + MaxCallStamp + 1

\* list.remove(x): drop the first element equal to x.
RECURSIVE ListRemove(_, _)
ListRemove(lst, x) ==
  IF lst = <<>> THEN <<>>
  ELSE IF Head(lst) = x THEN Tail(lst)
  ELSE <<Head(lst)>> \o ListRemove(Tail(lst), x)

\* for device in list: if device.get(MAC) == mac: list.remove(device)
\* (the list iterator is an index: a removal shifts the rest to the left and
\* the element that follows the removed one is skipped).
RECURSIVE RemoveLoop(_, _, _)
RemoveLoop(lst, i, mac) ==
  IF i > Len(lst) THEN lst
  ELSE IF lst[i].mac = mac THEN RemoveLoop(ListRemove(lst, lst[i]), i + 1, mac)
  ELSE RemoveLoop(lst, i + 1, mac)

\* Stable insertion of e into a list sorted by connected_device_time.
RECURSIVE InsertByTime(_, _)
InsertByTime(sorted, e) ==
  IF sorted = <<>> THEN <<e>>
  ELSE IF connected_device_time(Head(sorted)) <= connected_device_time(e)
       THEN <<Head(sorted)>> \o InsertByTime(Tail(sorted), e)
       ELSE <<e>> \o sorted

\* list.sort(key=self.connected_device_time): a stable sort.
RECURSIVE SortByTime(_)
SortByTime(lst) ==
  IF lst = <<>> THEN <<>>
  ELSE InsertByTime(SortByTime(SubSeq(lst, 1, Len(lst) - 1)), lst[Len(lst)])

\* A mutant of EvictLoop: the size check is off by one.
EvictLoopOffByOne(lst, max) ==
  IF Len(lst) > max + 1 THEN SubSeq(lst, Len(lst) - max, Len(lst)) ELSE lst

\* while len(list) > max: list.pop(0)
RECURSIVE EvictLoop(_, _)
EvictLoop(lst, max) ==
  IF Len(lst) > max THEN EvictLoop(Tail(lst), max) ELSE lst

\* ARDevice.connected_device on the history (list, latest): the new list, the
\* new latest-connected time, the entries evicted, and whether the call
\* returned or raised (the final [-1] on an empty list is an IndexError, raised
\* after the list has been changed).
connected_device(lst, latest, identity, max) ==
  IF identity.mac = NoMac
  THEN [list |-> lst, latest |-> latest, evicted |-> <<>>, outcome |-> "returned"]
  ELSE LET removed == RemoveLoop(lst, 1, identity.mac)
           sorted == SortByTime(removed)
           appended == Append(sorted, identity)
           kept == EvictLoop(appended, max)
           evicted == SubSeq(appended, 1, Len(appended) - Len(kept))
       IN IF kept = <<>>
          THEN [list |-> kept, latest |-> latest, evicted |-> evicted,
                outcome |-> "raised"]
          ELSE [list |-> kept, latest |-> kept[Len(kept)].connected,
                evicted |-> evicted, outcome |-> "returned"]

(* ------------------------------ observation ---------------------------- *)
\* What the most recent step that acted did, as seen from outside: the keys
\* of the snapshot it fetched and those of them reported as not wired, the
\* snapshot keys it worked on, the clients it reported as new, the
\* connected_device calls it made, the events the router put on the event bus,
\* the dispatcher signals it sent, the coordinators it refreshed and its log
\* lines.
NoStep ==
  [kind |-> "none", fetch |-> "none", outcome |-> "none", fetched |-> {},
   unwired |-> {}, present |-> {}, new |-> <<>>,
   calls |-> <<>>, evicted |-> <<>>, fired |-> <<>>, signals |-> {},
   refreshed |-> {}, log |-> {}]

(* ------------------------------ construction --------------------------- *)
\* ARDevice.__init__
Init ==
  /\ mode \in Modes
  /\ max_latest \in 0..MaxLatest
  /\ consider_home \in 0..MaxWindow
  /\ options = NoOptions
  /\ horizon = MaxTime
  /\ updates = {NoHistory, WithWindow, WithEvents}
  /\ clients = <<>>
  /\ aimesh = <<>>
  /\ clients_number = 0
  /\ clients_list = <<>>
  /\ aimesh_number = 0
  /\ aimesh_list = <<>>
  /\ latest_connected = NoStamp
  /\ latest_connected_list = <<>>
  /\ connect_error = FALSE
  /\ sensor_handler = <<>>
  /\ sensor_coordinator = {}
  /\ now = 0
  /\ pc = "constructed"
  /\ tracker_pc = "none"
  /\ last = NoStep

(* ------------------------ entity state (client / node) ------------------ *)
\* client.identity: the attributes of a client the router publishes.
Identity(c) == [mac |-> c.mac, connected |-> c.connected]

\* ARClient(mac): a fresh client, not connected, never seen.
NewClient(mac) ==
  [mac |-> mac, state |-> FALSE, last_activity |-> 0, connected |-> NoStamp]

\* ARClient.update(client_info, consider_home, event_call, connected_call) at
\* time t. info is <<>> when the client is absent from the snapshot, <<entry>>
\* otherwise. A present record is merged; an absent connected client stays
\* connected until t - last_activity > window, when a window is supplied.
\* became_connected: the state went from false/unknown to true, which is when
\* connected_call(identity) is invoked.
ClientUpdate(c, info, has_window, window, t) ==
  LET c2 == IF info # <<>>
            THEN [mac |-> c.mac, state |-> info[1].online, last_activity |-> t,
                  connected |-> info[1].since]
            ELSE IF has_window /\ c.state
                 THEN [c EXCEPT !.state = ~(t - c.last_activity > window)]
                 ELSE c
  IN [client |-> c2, became_connected |-> (~c.state /\ c2.state)]

\* node.identity
NodeIdentity(n) == [mac |-> n.mac, connected |-> n.connected]

\* AiMeshNode(mac)
NewNode(mac) == [mac |-> mac, connected |-> FALSE]

\* AiMeshNode.update(node_info, event_call): a present record is merged, an
\* absent node keeps its connected flag (no grace window, no flip).
NodeUpdate(n, info) ==
  IF info # <<>> THEN [n EXCEPT !.connected = info[1].online] ELSE n

(* ------------------------------- snapshots ------------------------------ *)
\* Keys of an insertion-ordered dict held as a sequence of records with a mac.
Keys(d) == {d[i].mac : i \in DOMAIN d}

\* dict.pop(mac, None): the value found, as <<>> or <<info>>.
Lookup(d, mac) ==
  LET hit == SelectSeq(d, LAMBDA e : e.mac = mac)
  IN IF hit = <<>> THEN <<>> ELSE <<hit[1].info>>

\* A mutant of Without: the entry found is not taken out of the snapshot.
WithoutKeepsEntry(d, mac) == d

\* dict.pop(mac, None): the dict that is left.
Without(d, mac) == SelectSeq(d, LAMBDA e : e.mac # mac)

\* {format_mac(mac): value for mac, value in snapshot.items()}: a key met again
\* keeps its first position and takes the later value.
RECURSIVE Normalize(_)
Normalize(snap) ==
  IF snap = <<>> THEN <<>>
  ELSE LET before == Normalize(SubSeq(snap, 1, Len(snap) - 1))
           e == snap[Len(snap)]
           mac == format_mac(e.raw)
       IN IF mac \in Keys(before)
          THEN [i \in DOMAIN before |->
                  IF before[i].mac = mac THEN [mac |-> mac, info |-> e]
                  ELSE before[i]]
          ELSE Append(before, [mac |-> mac, info |-> e])

\* A mutant of FilterWired: nothing is filtered in any mode.
FilterWiredNever(snap, m) == snap

\* For Media bridge mode only leave wired devices.
FilterWired(snap, m) ==
  IF m = MEDIA_BRIDGE THEN SelectSeq(snap, LAMBDA e : e.wired) ELSE snap

ClientEntries ==
  [raw : RawMacs, online : BOOLEAN, since : 1..MaxStamp, wired : BOOLEAN]

NodeRawMacs == {"AA:01", "aa:01"}
NodeEntries == [raw : NodeRawMacs, online : BOOLEAN]

\* Snapshots: dicts of at most MaxSnap entries, keyed by distinct raw MACs.
SnapshotsOf(entries, longest) ==
  UNION {{s \in [1..n -> entries] :
            \A i, j \in 1..n : i # j => s[i].raw # s[j].raw} : n \in 0..longest}

\* What bridge.async_get_clients can return, in every mode.
ClientSnapshots == SnapshotsOf(ClientEntries, MaxSnap)
ClientSnapshotsIn(m) == ClientSnapshots

\* The canonical MACs of a fetched snapshot, and those of its entries whose
\* connection is not wired.
FetchedKeys(snap) == {format_mac(snap[i].raw) : i \in DOMAIN snap}
UnwiredKeys(snap) ==
  {format_mac(snap[i].raw) : i \in {j \in DOMAIN snap : ~snap[j].wired}}

\* What bridge.async_get_aimesh_nodes can return.
NodeSnapshots == SnapshotsOf(NodeEntries, MaxNodeSnap)

(* ------------------------------- fire_event ----------------------------- *)
\* A mutant of fire_event: the event is fired unless its option is False.
fire_event_unless_false(opts, event, args) ==
  IF opts[event] # <<FALSE>> THEN <<[event |-> event, args |-> args]>> ELSE <<>>

\* ARDevice.fire_event(event, args): what is put on the event bus, nothing
\* unless self._options.get(event) is True.
fire_event(opts, event, args) ==
  IF opts[event] = <<TRUE>> THEN <<[event |-> event, args |-> args]>> ELSE <<>>

\* for x in new: self.fire_event(event, x.identity)
RECURSIVE FireForEach(_, _, _)
FireForEach(opts, event, identities) ==
  IF identities = <<>> THEN <<>>
  ELSE fire_event(opts, event, Head(identities))
         \o FireForEach(opts, event, Tail(identities))

(* --------------------------- update_devices ----------------------------- *)
NoCall == [list |-> <<>>, latest |-> NoStamp, evicted |-> <<>>, outcome |-> "returned"]

\* connected_call=self.connected_device, invoked when the update made the
\* client connected.
Record(acc, u, max) ==
  IF u.became_connected
  THEN connected_device(acc.list, acc.latest, Identity(u.client), max)
  ELSE [NoCall EXCEPT !.list = acc.list, !.latest = acc.latest]

\* A mutant of KnownClientUpdate: no consider-home window is handed over.
KnownClientUpdateNoWindow(c, info, window, t) ==
  ClientUpdate(c, info, FALSE, 0, t)

\* client_state.update(client_info, consider_home, ...) for a known client.
KnownClientUpdate(c, info, window, t) ==
  ClientUpdate(c, info, TRUE, window, t)

\* client.update(client_info, ...) for a new client: no window is given.
NewClientUpdate(mac, info, t) ==
  ClientUpdate(NewClient(mac), <<info>>, FALSE, 0, t)

\* for client_mac, client_state in self._clients.items(): pop the client from
\* the working snapshot and update it. An exception raised by connected_device
\* ends the pass where it stands.
RECURSIVE UpdateKnown(_, _, _, _, _)
UpdateKnown(acc, i, window, max, t) ==
  IF i > Len(acc.clients) \/ acc.raised THEN acc
  ELSE LET c == acc.clients[i]
           u == KnownClientUpdate(c, Lookup(acc.rest, c.mac), window, t)
           cd == Record(acc, u, max)
       IN UpdateKnown(
            [acc EXCEPT !.clients[i] = u.client,
                        !.rest = Without(acc.rest, c.mac),
                        !.list = cd.list,
                        !.latest = cd.latest,
                        !.calls = IF u.became_connected THEN Append(@, c.mac) ELSE @,
                        !.raised = (cd.outcome = "raised")],
            i + 1, window, max, t)

\* for client_mac, client_info in clients.items(): create, update and store
\* each client left in the working snapshot.
RECURSIVE AddNew(_, _, _, _)
AddNew(acc, j, max, t) ==
  IF j > Len(acc.rest) \/ acc.raised THEN acc
  ELSE LET e == acc.rest[j]
           u == NewClientUpdate(e.mac, e.info, t)
           cd == Record(acc, u, max)
           called == [acc EXCEPT !.list = cd.list,
                                 !.latest = cd.latest,
                                 !.calls = IF u.became_connected
                                           THEN Append(@, e.mac) ELSE @]
       IN IF cd.outcome = "raised"
          THEN [called EXCEPT !.raised = TRUE]
          ELSE AddNew([called EXCEPT !.clients = Append(@, u.client),
                                     !.new = Append(@, e.mac)],
                      j + 1, max, t)

\* A mutant of UpdateKnownClients: a known client that is absent from the
\* snapshot is dropped from the map.
UpdateKnownClientsDropAbsent(start, window, max, t) ==
  LET r == UpdateKnown(start, 1, window, max, t)
  IN [r EXCEPT !.clients = SelectSeq(@, LAMBDA c : c.mac \in start.present)]

\* The known clients of update_devices, one after the other from the first.
UpdateKnownClients(start, window, max, t) == UpdateKnown(start, 1, window, max, t)

\* The diff of update_devices (router.py 404-437) on a fetched snapshot.
Reconcile(cs, lst, latest, snap, m, window, max, t) ==
  LET working == Normalize(FilterWired(snap, m))
      start == [clients |-> cs, rest |-> working, list |-> lst,
                latest |-> latest, calls |-> <<>>,
                new |-> <<>>, raised |-> FALSE, present |-> Keys(working)]
      known == UpdateKnownClients(start, window, max, t)
  IN AddNew(known, 1, max, t)

\* A mutant of ConnectedList: every client is listed, connected or not.
ConnectedListAll(cs) == [i \in DOMAIN cs |-> Identity(cs[i])]

\* Connected clients sensor: the identities of the connected clients, in map
\* order; their number is counted in the same loop.
ConnectedList(cs) ==
  LET on == SelectSeq(cs, LAMBDA c : c.state)
  IN [i \in DOMAIN on |-> Identity(on[i])]

(* ----------------------------- sensor handler -------------------------- *)
\* ARSensorHandler.__init__. latest_alias: the handler's
\* _latest_connected_list is the router's own list object (update_clients
\* stores the reference it is given, and the router only ever changes its list
\* in place); until then it is the handler's own empty list.
\* latest_published: what that list held when update_clients last stored it.
NewHandler ==
  [clients_number |-> 0, clients_list |-> <<>>, latest_connected |-> NoStamp,
   latest_alias |-> FALSE, latest_published |-> <<>>,
   aimesh_number |-> 0, aimesh_list |-> <<>>]

\* The handler's _latest_connected_list as a value.
HandlerLatestList(h, router_list) ==
  IF h.latest_alias THEN router_list ELSE <<>>

\* ARSensorHandler._get_aimesh: the AiMesh sensor data, <<>> for the empty
\* dict returned outside router / access point / media bridge mode.
get_aimesh(h, m) ==
  IF m \in TrackingModes
  THEN <<[number |-> h.aimesh_number, list |-> h.aimesh_list]>>
  ELSE <<>>

\* ARSensorHandler.update_clients: FALSE and no change when all four values
\* are equal to the stored ones, else store them and return TRUE.
update_clients(h, number, lst, latest, router_list) ==
  IF /\ h.clients_number = number
     /\ h.clients_list = lst
     /\ h.latest_connected = latest
     /\ HandlerLatestList(h, router_list) = router_list
  THEN [handler |-> h, changed |-> FALSE]
  ELSE [handler |-> [h EXCEPT !.clients_number = number,
                              !.clients_list = lst,
                              !.latest_connected = latest,
                              !.latest_alias = TRUE,
                              !.latest_published = router_list],
        changed |-> TRUE]

\* ARSensorHandler.update_aimesh
update_aimesh(h, number, lst) ==
  IF h.aimesh_number = number /\ h.aimesh_list = lst
  THEN [handler |-> h, changed |-> FALSE]
  ELSE [handler |-> [h EXCEPT !.aimesh_number = number, !.aimesh_list = lst],
        changed |-> TRUE]

\* ARDevice._update_unpolled_sensors with the router's current aggregates:
\* the handler afterwards and the coordinators asked to refresh.
update_unpolled_sensors(sh, coord, a_number, a_list, c_number, c_list, latest, router_list) ==
  IF sh = <<>> THEN [sh |-> sh, refreshed |-> {}]
  ELSE LET a == IF AIMESH \in coord
                THEN update_aimesh(sh[1], a_number, a_list)
                ELSE [handler |-> sh[1], changed |-> FALSE]
           c == IF DEVICES \in coord
                THEN update_clients(a.handler, c_number, c_list, latest, router_list)
                ELSE [handler |-> a.handler, changed |-> FALSE]
       IN [sh |-> <<c.handler>>,
           refreshed |-> (IF a.changed THEN {AIMESH} ELSE {})
                         \cup (IF c.changed THEN {DEVICES} ELSE {})]

(* ------------------------- update_devices: the pass --------------------- *)
\* A mutant of DevicesFetchFailed: the connected-clients sensor is reset
\* before the fetch is known to have succeeded.
DevicesFetchFailedResets(kind, next_pc) ==
  /\ connect_error' = TRUE
  /\ pc' = next_pc
  /\ clients_number' = 0
  /\ clients_list' = <<>>
  /\ last' = [NoStep EXCEPT !.kind = kind, !.fetch = "clients",
                            !.outcome = "fetch_failed",
                            !.log = IF connect_error THEN {} ELSE {"error"}]
  /\ UNCHANGED <<config, clients, aimesh, aimesh_number, aimesh_list,
                 latest_connected, latest_connected_list, sensor_handler,
                 sensor_coordinator, now>>

\* except UpdateFailed: log the error once, set the flag, return.
DevicesFetchFailed(kind, next_pc) ==
  /\ connect_error' = TRUE
  /\ pc' = next_pc
  /\ last' = [NoStep EXCEPT !.kind = kind, !.fetch = "clients",
                            !.outcome = "fetch_failed",
                            !.log = IF connect_error THEN {} ELSE {"error"}]
  /\ UNCHANGED <<config, clients, aimesh, clients_number, clients_list,
                 aimesh_number, aimesh_list, latest_connected,
                 latest_connected_list, sensor_handler, sensor_coordinator, now>>

\* for client in new_clients: client.identity (the new clients are the last
\* ones of the map, in the order they were added).
NewIdentities(cs, new) ==
  [j \in DOMAIN new |-> Identity(cs[Len(cs) - Len(new) + j])]

\* A mutant of DevicesFetched: the pass is suspended after its loop over
\* the known clients, so what any other task finds is the map with the known
\* clients updated, no new client stored, no aggregate recomputed and no
\* signal sent.
DevicesFetchedSuspends(kind, next_pc, raised_pc, snap, t) ==
  \E working \in {Normalize(FilterWired(snap, mode))} :
  \E k \in {UpdateKnownClients(
               [clients |-> clients, rest |-> working,
                list |-> latest_connected_list, latest |-> latest_connected,
                calls |-> <<>>, new |-> <<>>, raised |-> FALSE,
                present |-> Keys(working)],
               consider_home, max_latest, t)} :
     /\ now' = t
     /\ connect_error' = FALSE
     /\ clients' = k.clients
     /\ latest_connected_list' = k.list
     /\ latest_connected' = k.latest
     /\ pc' = IF k.raised THEN raised_pc ELSE next_pc
     /\ last' = [NoStep EXCEPT !.kind = kind, !.fetch = "clients",
                               !.outcome = IF k.raised THEN "raised" ELSE "ok",
                               !.fetched = FetchedKeys(snap),
                               !.unwired = UnwiredKeys(snap),
                               !.present = k.present, !.calls = k.calls]
     /\ UNCHANGED <<config, aimesh, clients_number, clients_list, aimesh_number,
                    aimesh_list, sensor_handler, sensor_coordinator>>

\* The snapshot was fetched at time t: reconcile, recompute the aggregates,
\* send the signals, refresh the unpolled sensors. When connected_device
\* raises, the pass ends there: the clients updated so far and the history keep
\* their changes, nothing after the loops runs. (r, on and u are bound by a
\* quantifier over a singleton: each is one value, computed once.)
DevicesFetched(kind, next_pc, raised_pc, snap, t) ==
  \E r \in {Reconcile(clients, latest_connected_list, latest_connected, snap,
                      mode, consider_home, max_latest, t)} :
  \E on \in {ConnectedList(r.clients)} :
    LET log == IF connect_error THEN {"reconnected"} ELSE {}
        seen == [NoStep EXCEPT !.kind = kind, !.fetch = "clients",
                               !.fetched = FetchedKeys(snap),
                               !.unwired = UnwiredKeys(snap),
                               !.present = r.present, !.new = r.new,
                               !.calls = r.calls,
                               !.log = log]
    IN /\ now' = t
       /\ connect_error' = FALSE
       /\ clients' = r.clients
       /\ latest_connected_list' = r.list
       /\ latest_connected' = r.latest
       /\ UNCHANGED <<config, aimesh, aimesh_number, aimesh_list, sensor_coordinator>>
       /\ IF r.raised
          THEN /\ pc' = raised_pc
               /\ last' = [seen EXCEPT !.outcome = "raised"]
               /\ UNCHANGED <<clients_number, clients_list, sensor_handler>>
          ELSE \E u \in {update_unpolled_sensors(
                            sensor_handler, sensor_coordinator, aimesh_number,
                            aimesh_list, Len(on), on, r.latest, r.list)} :
               /\ pc' = next_pc
               /\ clients_number' = Len(on)
               /\ clients_list' = on
               /\ sensor_handler' = u.sh
               /\ last' = [seen EXCEPT
                     !.outcome = "ok",
                     !.fired = FireForEach(options, DEVICE_CONNECTED,
                                           NewIdentities(r.clients, r.new)),
                     !.signals = {"device_update"} \cup
                                 (IF r.new # <<>> THEN {"device_new"} ELSE {}),
                     !.refreshed = u.refreshed]

\* ARDevice.update_devices from its fetch on.
UpdateDevices(kind, next_pc, raised_pc) ==
  \/ DevicesFetchFailed(kind, next_pc)
  \/ /\ now < horizon
     /\ \E snap \in ClientSnapshotsIn(mode) :
          DevicesFetched(kind, next_pc, raised_pc, snap, now + 1)

(* --------------------------- update_nodes: the pass --------------------- *)
\* except UpdateFailed: log the error once, set the flag, return.
NodesFetchFailed(kind, next_pc) ==
  /\ connect_error' = TRUE
  /\ pc' = next_pc
  /\ last' = [NoStep EXCEPT !.kind = kind, !.fetch = "nodes",
                            !.outcome = "fetch_failed",
                            !.log = IF connect_error THEN {} ELSE {"error"}]
  /\ UNCHANGED <<config, clients, aimesh, clients_number, clients_list,
                 aimesh_number, aimesh_list, latest_connected,
                 latest_connected_list, sensor_handler, sensor_coordinator, now>>

\* for node_mac, node in self._aimesh.items(): node.update(nodes.pop(mac, None))
UpdateKnownNodes(ns, working) ==
  [i \in DOMAIN ns |-> NodeUpdate(ns[i], Lookup(working, ns[i].mac))]

\* for node_mac, node_info in nodes.items(): the nodes left are new.
NewNodes(ns, working) ==
  LET rest == SelectSeq(working, LAMBDA e : e.mac \notin Keys(ns))
  IN [j \in DOMAIN rest |-> NodeUpdate(NewNode(rest[j].mac), <<rest[j].info>>)]

\* A mutant of ReconcileNodes: the node map is rebuilt from the snapshot, so
\* a node that is absent is dropped.
ReconcileNodesDropAbsent(ns, working) ==
  SelectSeq(UpdateKnownNodes(ns, working), LAMBDA n : n.mac \in Keys(working))
    \o NewNodes(ns, working)

\* The node map after update_nodes (router.py 478-497).
ReconcileNodes(ns, working) ==
  UpdateKnownNodes(ns, working) \o NewNodes(ns, working)

\* AiMesh sensors: the number counts the connected nodes, the list takes the
\* identity of every node.
AimeshNumber(ns) == Len(SelectSeq(ns, LAMBDA n : NodeIdentity(n).connected))
AimeshList(ns) == [i \in DOMAIN ns |-> NodeIdentity(ns[i])]

\* A mutant of NodesFetched: node.update is handed connected_device as
\* well, so a new node that is connected is recorded in the history.
NodesFetchedRecords(kind, next_pc, snap) ==
  \E working \in {Normalize(snap)} :
  \E ns \in {ReconcileNodes(aimesh, working)} :
  \E new \in {NewNodes(aimesh, working)} :
  \E cd \in {IF new # <<>> /\ new[1].connected
               THEN connected_device(latest_connected_list, latest_connected,
                                     [mac |-> new[1].mac, connected |-> now],
                                     max_latest)
               ELSE [NoCall EXCEPT !.list = latest_connected_list,
                                   !.latest = latest_connected]} :
     /\ aimesh' = ns
     /\ aimesh_number' = AimeshNumber(ns)
     /\ aimesh_list' = AimeshList(ns)
     /\ latest_connected_list' = cd.list
     /\ latest_connected' = cd.latest
     /\ pc' = next_pc
     /\ last' = [NoStep EXCEPT
           !.kind = kind, !.fetch = "nodes", !.outcome = "ok",
           !.fetched = FetchedKeys(snap),
           !.present = Keys(working),
           !.new = [j \in DOMAIN new |-> new[j].mac],
           !.fired = FireForEach(options, CONF_EVENT_NODE_CONNECTED,
                                 [j \in DOMAIN new |-> NodeIdentity(new[j])]),
           !.signals = {"aimesh_update"} \cup
                       (IF new # <<>> THEN {"aimesh_new"} ELSE {})]
     /\ UNCHANGED <<config, clients, clients_number, clients_list,
                    connect_error, sensor_handler, sensor_coordinator, now>>

\* update_nodes from its snapshot on: reconcile, recompute the mesh
\* aggregates, send the signals. No connected_call is handed to node.update.
NodesFetched(kind, next_pc, snap) ==
  \E working \in {Normalize(snap)} :
  \E ns \in {ReconcileNodes(aimesh, working)} :
  \E new \in {NewNodes(aimesh, working)} :
     /\ aimesh' = ns
     /\ aimesh_number' = AimeshNumber(ns)
     /\ aimesh_list' = AimeshList(ns)
     /\ pc' = next_pc
     /\ last' = [NoStep EXCEPT
           !.kind = kind, !.fetch = "nodes", !.outcome = "ok",
           !.fetched = FetchedKeys(snap),
           !.present = Keys(working),
           !.new = [j \in DOMAIN new |-> new[j].mac],
           !.fired = FireForEach(options, CONF_EVENT_NODE_CONNECTED,
                                 [j \in DOMAIN new |-> NodeIdentity(new[j])]),
           !.signals = {"aimesh_update"} \cup
                       (IF new # <<>> THEN {"aimesh_new"} ELSE {})]
     /\ UNCHANGED <<config, clients, clients_number, clients_list,
                    latest_connected, latest_connected_list, connect_error,
                    sensor_handler, sensor_coordinator, now>>

\* ARDevice.update_nodes from its fetch on.
UpdateNodes(kind, next_pc) ==
  \/ NodesFetchFailed(kind, next_pc)
  \/ \E snap \in NodeSnapshots : NodesFetched(kind, next_pc, snap)

(* -------------------------------- handlers ------------------------------ *)
\* A mutant of SetupConnected: the mode is not looked at.
SetupConnectedAnyMode ==
  /\ pc = "constructed"
  /\ pc' = "setup_nodes"
  /\ last' = [NoStep EXCEPT !.kind = "setup", !.outcome = "ok"]
  /\ UNCHANGED <<config, clients, aimesh, clients_number, clients_list,
                 aimesh_number, aimesh_list, latest_connected,
                 latest_connected_list, connect_error, sensor_handler,
                 sensor_coordinator, now, tracker_pc>>

\* ARDevice.setup up to the mode check: the bridge connects; in AiMesh-node
\* mode tracking is skipped and the sensor coordinators come next.
SetupConnected ==
  /\ pc = "constructed"
  /\ pc' = IF mode \in TrackingModes THEN "setup_nodes" ELSE "setup_init"
  /\ last' = [NoStep EXCEPT !.kind = "setup", !.outcome = "ok"]
  /\ UNCHANGED <<config, clients, aimesh, clients_number, clients_list,
                 aimesh_number, aimesh_list, latest_connected,
                 latest_connected_list, connect_error, sensor_handler,
                 sensor_coordinator, now, tracker_pc>>

\* ARDevice.setup: the bridge does not connect, ConfigEntryNotReady is raised.
SetupNotReady ==
  /\ pc = "constructed"
  /\ pc' = "failed"
  /\ last' = [NoStep EXCEPT !.kind = "setup", !.outcome = "raised"]
  /\ UNCHANGED <<config, clients, aimesh, clients_number, clients_list,
                 aimesh_number, aimesh_list, latest_connected,
                 latest_connected_list, connect_error, sensor_handler,
                 sensor_coordinator, now, tracker_pc>>

\* ARDevice.setup: await self.update_nodes()
SetupNodes ==
  /\ pc = "setup_nodes"
  /\ UpdateNodes("setup_nodes", "setup_devices")
  /\ UNCHANGED tracker_pc

\* ARDevice.setup: await self.update_devices()
SetupDevices ==
  /\ pc = "setup_devices"
  /\ UpdateDevices("setup_devices", "setup_init", "failed")
  /\ UNCHANGED tracker_pc

\* ARDevice._init_sensor_coordinators up to its first await (router.py
\* 521-541): return at once when the handler exists, else create it, hand it
\* the aggregates and wait for bridge.async_get_available_sensors.
InitSensorCoordinators ==
  /\ pc = "setup_init"
  /\ LET c == update_clients(NewHandler, clients_number, clients_list,
                             latest_connected, latest_connected_list)
         a == update_aimesh(c.handler, aimesh_number, aimesh_list)
     IN sensor_handler' = IF sensor_handler = <<>> THEN <<a.handler>>
                          ELSE sensor_handler
  /\ pc' = IF sensor_handler = <<>> THEN "init_sensors" ELSE "idle"
  /\ last' = [NoStep EXCEPT !.kind = "setup_init", !.outcome = "ok"]
  /\ UNCHANGED <<config, clients, aimesh, clients_number, clients_list,
                 aimesh_number, aimesh_list, latest_connected,
                 latest_connected_list, connect_error, sensor_coordinator,
                 now, tracker_pc>>

\* _init_sensor_coordinators, sensor type DEVICES (added to the available
\* sensors in router / access point / media bridge mode, after the bridge's
\* own): get_coordinator creates the coordinator and refreshes it, and it is
\* saved.
GetCoordinatorDevices ==
  /\ pc = "init_sensors"
  /\ mode \in TrackingModes
  /\ sensor_coordinator' = sensor_coordinator \cup {DEVICES}
  /\ pc' = "init_aimesh"
  /\ last' = [NoStep EXCEPT !.kind = "setup_init", !.outcome = "ok",
                            !.refreshed = {DEVICES}]
  /\ UNCHANGED <<config, clients, aimesh, clients_number, clients_list,
                 aimesh_number, aimesh_list, latest_connected,
                 latest_connected_list, connect_error, sensor_handler,
                 now, tracker_pc>>

\* _init_sensor_coordinators, sensor type AIMESH, the last one: created,
\* refreshed and saved; setup then registers the timer.
GetCoordinatorAimesh ==
  /\ pc = "init_aimesh"
  /\ sensor_coordinator' = sensor_coordinator \cup {AIMESH}
  /\ pc' = "idle"
  /\ last' = [NoStep EXCEPT !.kind = "setup_init", !.outcome = "ok",
                            !.refreshed = {AIMESH}]
  /\ UNCHANGED <<config, clients, aimesh, clients_number, clients_list,
                 aimesh_number, aimesh_list, latest_connected,
                 latest_connected_list, connect_error, sensor_handler,
                 now, tracker_pc>>

\* _init_sensor_coordinators in AiMesh-node mode: only the bridge's sensors
\* are available, no unpolled coordinator is created; setup then registers
\* the timer.
InitSensorsNodeMode ==
  /\ pc = "init_sensors"
  /\ mode \notin TrackingModes
  /\ pc' = "idle"
  /\ UNCHANGED <<config, clients, aimesh, clients_number, clients_list,
                 aimesh_number, aimesh_list, latest_connected,
                 latest_connected_list, connect_error, sensor_handler,
                 sensor_coordinator, now, tracker_pc, last>>

\* ARDevice.update_all, fired by the timer: await self.update_devices()
UpdateAllDevices ==
  /\ pc = "idle"
  /\ mode \in TrackingModes
  /\ UpdateDevices("update_devices", "all_nodes", "idle")
  /\ UNCHANGED tracker_pc

\* ARDevice.update_all: await self.update_nodes()
UpdateAllNodes ==
  /\ pc = "all_nodes"
  /\ UpdateNodes("update_nodes", "idle")
  /\ UNCHANGED tracker_pc

\* ARDevice.update_all in AiMesh-node mode: nothing is done.
UpdateAllSkipped ==
  /\ pc = "idle"
  /\ mode \notin TrackingModes
  /\ UNCHANGED vars

\* ARDevice.remove_trackers(raw={"entities": ...}): the clients whose MACs the
\* registry entries carry are popped, then update_devices is awaited.
RemoveTrackersPop(macs) ==
  /\ pc = "idle"
  /\ clients' = SelectSeq(clients, LAMBDA c : c.mac \notin macs)
  /\ pc' = "rt_devices"
  /\ last' = [NoStep EXCEPT !.kind = "remove_trackers", !.outcome = "ok"]
  /\ UNCHANGED <<config, aimesh, clients_number, clients_list, aimesh_number,
                 aimesh_list, latest_connected, latest_connected_list,
                 connect_error, sensor_handler, sensor_coordinator, now,
                 tracker_pc>>

\* ARDevice.remove_trackers(raw={"entities": ...}) with a registry entry
\* whose capabilities hold no MAC: the clients of the entries before it are
\* popped, capabilities[MAC] raises KeyError and the call ends there, without
\* its update_devices.
RemoveTrackersRaised(macs) ==
  /\ pc = "idle"
  /\ clients' = SelectSeq(clients, LAMBDA c : c.mac \notin macs)
  /\ last' = [NoStep EXCEPT !.kind = "remove_trackers", !.outcome = "raised"]
  /\ UNCHANGED <<config, aimesh, clients_number, clients_list, aimesh_number,
                 aimesh_list, latest_connected, latest_connected_list,
                 connect_error, sensor_handler, sensor_coordinator, now,
                 pc, tracker_pc>>

\* self._options.update(new_options): the options every later read sees.
update_options(new) ==
  /\ max_latest' = IF new.name = CONF_LATEST_CONNECTED THEN new.value
                   ELSE max_latest
  /\ consider_home' = IF new.name = CONF_CONSIDER_HOME THEN new.value
                      ELSE consider_home
  /\ options' = IF new.name \in OptionNames
                THEN [options EXCEPT ![new.name] = <<new.value>>]
                ELSE options

\* ARDevice.update_options(new_options) on an idle router, with one of the
\* dicts explored.
UpdateOptions ==
  /\ pc = "idle"
  /\ \E new \in updates : update_options(new)
  /\ last' = [NoStep EXCEPT !.kind = "update_options", !.outcome = "ok"]
  /\ UNCHANGED <<mode, horizon, updates, clients, aimesh, clients_number,
                 clients_list,
                 aimesh_number, aimesh_list, latest_connected,
                 latest_connected_list, connect_error, sensor_handler,
                 sensor_coordinator, now, pc, tracker_pc>>

\* ARDevice.remove_trackers without raw data: return at once, nothing is done.
RemoveTrackersNoRaw ==
  /\ pc = "idle"
  /\ UNCHANGED vars

\* ARDevice.remove_trackers: await self.update_devices()
RemoveTrackersDevices ==
  /\ pc = "rt_devices"
  /\ UpdateDevices("rt_devices", "idle", "idle")
  /\ UNCHANGED tracker_pc

Next ==
  \/ SetupConnected
  \/ SetupNotReady
  \/ SetupNodes
  \/ SetupDevices
  \/ InitSensorCoordinators
  \/ GetCoordinatorDevices
  \/ GetCoordinatorAimesh
  \/ InitSensorsNodeMode
  \/ UpdateAllDevices
  \/ UpdateAllNodes
  \/ UpdateAllSkipped
  \/ \E macs \in SUBSET Macs : RemoveTrackersPop(macs)
  \/ \E macs \in SUBSET Macs : RemoveTrackersRaised(macs)
  \/ RemoveTrackersNoRaw
  \/ RemoveTrackersDevices
  \/ UpdateOptions

\* One handler at a time, each pass atomic from its fetch on.
Spec == Init /\ [][Next]_vars

(* ---------------- the timer beside a remove_trackers call --------------- *)
\* The timer set up by async_track_time_interval runs update_all as a task of
\* its own every interval, and a remove_trackers call is a task of its own as
\* well. Each is suspended where it awaits the bridge; nothing in router.py
\* makes one wait for the other.

\* update_all is started by the timer and suspended at
\* await self.bridge.async_get_clients().
TimerStart ==
  /\ pc = "idle"
  /\ mode \in TrackingModes
  /\ pc' = "all_devices"
  /\ UNCHANGED <<config, clients, aimesh, clients_number, clients_list,
                 aimesh_number, aimesh_list, latest_connected,
                 latest_connected_list, connect_error, sensor_handler,
                 sensor_coordinator, now, tracker_pc, last>>

\* The client fetch of the timer's update_all is answered: update_devices
\* runs from its fetch on.
TimerDevices ==
  /\ pc = "all_devices"
  /\ UpdateDevices("update_devices", "all_nodes", "idle")
  /\ UNCHANGED tracker_pc

\* remove_trackers(raw=...) is called, whatever the timer's update_all is
\* doing: the clients are popped and its update_devices is suspended at its
\* fetch.
TrackerStart(macs) ==
  /\ tracker_pc = "none"
  /\ pc \in {"idle", "all_devices", "all_nodes"}
  /\ clients' = SelectSeq(clients, LAMBDA c : c.mac \notin macs)
  /\ tracker_pc' = "rt_devices"
  /\ last' = [NoStep EXCEPT !.kind = "remove_trackers", !.outcome = "ok"]
  /\ UNCHANGED <<config, aimesh, clients_number, clients_list, aimesh_number,
                 aimesh_list, latest_connected, latest_connected_list,
                 connect_error, sensor_handler, sensor_coordinator, now, pc>>

\* remove_trackers(raw=...) meets a registry entry without a MAC, whatever
\* the timer's update_all is doing: the call ends after its pops.
TrackerRaised(macs) ==
  /\ tracker_pc = "none"
  /\ pc \in {"idle", "all_devices", "all_nodes"}
  /\ clients' = SelectSeq(clients, LAMBDA c : c.mac \notin macs)
  /\ last' = [NoStep EXCEPT !.kind = "remove_trackers", !.outcome = "raised"]
  /\ UNCHANGED <<config, aimesh, clients_number, clients_list, aimesh_number,
                 aimesh_list, latest_connected, latest_connected_list,
                 connect_error, sensor_handler, sensor_coordinator, now,
                 pc, tracker_pc>>

\* update_options(new_options) is a plain call: it runs between any two
\* steps of the tasks, whatever fetch they are suspended at.
TaskUpdateOptions ==
  /\ pc \in {"idle", "all_devices", "all_nodes"}
  /\ \E new \in updates : update_options(new)
  /\ last' = [NoStep EXCEPT !.kind = "update_options", !.outcome = "ok"]
  /\ UNCHANGED <<mode, horizon, updates, clients, aimesh, clients_number,
                 clients_list,
                 aimesh_number, aimesh_list, latest_connected,
                 latest_connected_list, connect_error, sensor_handler,
                 sensor_coordinator, now, pc, tracker_pc>>

\* The client fetch of remove_trackers is answered. The timer's task stays
\* where it is.
TrackerDevices ==
  /\ tracker_pc = "rt_devices"
  /\ tracker_pc' = "none"
  /\ UpdateDevices("rt_devices", pc, pc)

AsyncNext ==
  \/ SetupConnected
  \/ SetupNotReady
  \/ SetupNodes
  \/ SetupDevices
  \/ InitSensorCoordinators
  \/ GetCoordinatorDevices
  \/ GetCoordinatorAimesh
  \/ InitSensorsNodeMode
  \/ TimerStart
  \/ TimerDevices
  \/ UpdateAllNodes
  \/ UpdateAllSkipped
  \/ \E macs \in SUBSET Macs : TrackerStart(macs)
  \/ \E macs \in SUBSET Macs : TrackerRaised(macs)
  \/ RemoveTrackersNoRaw
  \/ TrackerDevices
  \/ TaskUpdateOptions

\* A constructed router or AiMesh node, CONF_LATEST_CONNECTED = MaxLatest,
\* no consider-home window, no option set.
AsyncInit ==
  \E m \in {ROUTER, AIMESH_NODE} :
    /\ mode = m
    /\ max_latest = MaxLatest
    /\ consider_home = 0
    /\ options = NoOptions
    /\ horizon = MaxTime
    /\ updates = {NoHistory, WithWindow}
    /\ clients = <<>>
    /\ aimesh = <<>>
    /\ clients_number = 0
    /\ clients_list = <<>>
    /\ aimesh_number = 0
    /\ aimesh_list = <<>>
    /\ latest_connected = NoStamp
    /\ latest_connected_list = <<>>
    /\ connect_error = FALSE
    /\ sensor_handler = <<>>
    /\ sensor_coordinator = {}
    /\ now = 0
    /\ pc = "constructed"
    /\ tracker_pc = "none"
    /\ last = NoStep

\* The timer's update_all and one remove_trackers call as two tasks.
SpecAsync == AsyncInit /\ [][AsyncNext]_vars

(* ----------------------------- one more poll --------------------------- *)
\* A constructed router or AiMesh node, CONF_LATEST_CONNECTED = MaxLatest,
\* no consider-home window, no option set, followed for MaxDeepTime polls.
DeepInit ==
  \E m \in {ROUTER, AIMESH_NODE} :
    /\ mode = m
    /\ max_latest = MaxLatest
    /\ consider_home = 0
    /\ options = NoOptions
    /\ horizon = MaxDeepTime
    /\ updates = {WithWindow}
    /\ clients = <<>>
    /\ aimesh = <<>>
    /\ clients_number = 0
    /\ clients_list = <<>>
    /\ aimesh_number = 0
    /\ aimesh_list = <<>>
    /\ latest_connected = NoStamp
    /\ latest_connected_list = <<>>
    /\ connect_error = FALSE
    /\ sensor_handler = <<>>
    /\ sensor_coordinator = {}
    /\ now = 0
    /\ pc = "constructed"
    /\ tracker_pc = "none"
    /\ last = NoStep

\* The handlers of Spec, one at a time, over the longer run.
SpecDeep == DeepInit /\ [][Next]_vars

(* ------------------------- the options explored ------------------------- *)
\* The option maps explored: every combination of the two event switches with
\* CONF_TRACK_DEVICES absent, and CONF_TRACK_DEVICES set with the switches
\* absent.
ExploredOptions ==
  {o \in [OptionNames -> OptionValues] :
     \/ o[CONF_TRACK_DEVICES] = <<>>
     \/ o[DEVICE_CONNECTED] = <<>> /\ o[CONF_EVENT_NODE_CONNECTED] = <<>>}

\* A constructed router or AiMesh node with any of the explored option maps,
\* CONF_LATEST_CONNECTED = MaxLatest and no consider-home window.
OptionsInit ==
  \E m \in {ROUTER, AIMESH_NODE}, o \in ExploredOptions :
    /\ mode = m
    /\ max_latest = MaxLatest
    /\ consider_home = 0
    /\ options = o
    /\ horizon = MaxTime
    /\ updates = {WithEvents}
    /\ clients = <<>>
    /\ aimesh = <<>>
    /\ clients_number = 0
    /\ clients_list = <<>>
    /\ aimesh_number = 0
    /\ aimesh_list = <<>>
    /\ latest_connected = NoStamp
    /\ latest_connected_list = <<>>
    /\ connect_error = FALSE
    /\ sensor_handler = <<>>
    /\ sensor_coordinator = {}
    /\ now = 0
    /\ pc = "constructed"
    /\ tracker_pc = "none"
    /\ last = NoStep

\* The same handlers under the explored option maps.
SpecOptions == OptionsInit /\ [][Next]_vars

(* ---------------- connected_device called on its own ------------------- *)
CallIdentities ==
  [mac : CallMacs \cup {NoMac}, connected : 0..MaxCallStamp]

\* One call of ARDevice.connected_device(identity).
ConnectedDeviceCall(identity) ==
  LET r == connected_device(latest_connected_list, latest_connected, identity,
                            max_latest)
  IN /\ latest_connected_list' = r.list
     /\ latest_connected' = r.latest
     /\ last' = [NoStep EXCEPT !.kind = "connected_device",
                               !.outcome = r.outcome,
                               !.calls = <<identity>>,
                               !.evicted = r.evicted]
     /\ UNCHANGED <<config, clients, aimesh, clients_number, clients_list,
                    aimesh_number, aimesh_list, connect_error, sensor_handler,
                    sensor_coordinator, now, pc, tracker_pc>>

HistoryNext == \E identity \in CallIdentities : ConnectedDeviceCall(identity)

\* A constructed router, CONF_LATEST_CONNECTED in 0..MaxCallLatest.
HistoryInit ==
  \E m \in Modes, w \in 0..MaxWindow :
    /\ mode = m
    /\ consider_home = w
    /\ max_latest \in 0..MaxCallLatest
    /\ options = NoOptions
    /\ horizon = MaxTime
    /\ updates = {}
    /\ clients = <<>>
    /\ aimesh = <<>>
    /\ clients_number = 0
    /\ clients_list = <<>>
    /\ aimesh_number = 0
    /\ aimesh_list = <<>>
    /\ latest_connected = NoStamp
    /\ latest_connected_list = <<>>
    /\ connect_error = FALSE
    /\ sensor_handler = <<>>
    /\ sensor_coordinator = {}
    /\ now = 0
    /\ pc = "constructed"
    /\ tracker_pc = "none"
    /\ last = NoStep

\* Any sequence of connected_device calls on a constructed router.
SpecHistory == HistoryInit /\ [][HistoryNext]_vars

(* ============================== claims ================================= *)
HistoryMacs == {latest_connected_list[i].mac : i \in DOMAIN latest_connected_list}
EntriesOf(mac) == {i \in DOMAIN latest_connected_list : latest_connected_list[i].mac = mac}
KeyAt(i) == connected_device_time(latest_connected_list[i])

\* C1: whenever a connected_device call has returned, the latest-connected
\* history holds at most CONF_LATEST_CONNECTED entries.
C1_HistoryBounded ==
  last.outcome = "returned" => Len(latest_connected_list) <= max_latest

\* C1 witness: a call returned after evicting, and the history is full.
C1_Witness ==
  /\ last.kind = "connected_device"
  /\ last.outcome = "returned"
  /\ last.evicted # <<>>
  /\ Len(latest_connected_list) = max_latest

\* C2: after any sequence of connected_device calls the history is sorted
\* ascending by connection timestamp.
C2_HistorySorted ==
  \A i, j \in DOMAIN latest_connected_list : i < j => KeyAt(i) <= KeyAt(j)

\* C3: the history holds at most one entry per MAC, and after a MAC has been
\* recorded its single entry stands at the position its connection timestamp
\* gives it (nothing older after it, nothing newer before it).
C3_OneEntryAtTimePosition ==
  /\ \A m \in HistoryMacs : Cardinality(EntriesOf(m)) = 1
  /\ (last.kind = "connected_device" /\ last.outcome = "returned"
      /\ last.calls[1].mac # NoMac) =>
       /\ Cardinality(EntriesOf(last.calls[1].mac)) = 1
       /\ \A i \in EntriesOf(last.calls[1].mac) :
            \A j \in DOMAIN latest_connected_list :
              /\ j < i => KeyAt(j) <= KeyAt(i)
              /\ j > i => KeyAt(i) <= KeyAt(j)

\* C4: when a call evicts, the evicted entries are the ones with the oldest
\* connection timestamps: no retained entry is older than an evicted one.
C4_EvictsOldest ==
  (last.kind = "connected_device" /\ last.outcome = "returned") =>
    \A e \in DOMAIN last.evicted : \A k \in DOMAIN latest_connected_list :
      connected_device_time(last.evicted[e]) <= KeyAt(k)

(* ------------------------- claims about the passes ---------------------- *)
CountMac(d, mac) == Cardinality({i \in DOMAIN d : d[i].mac = mac})
CountIn(seq, x) == Cardinality({i \in DOMAIN seq : seq[i] = x})
ConnectedCount(d) == Cardinality({i \in DOMAIN d : d[i].state})

\* The step being taken is a client pass (a node pass) whose fetch succeeded
\* and which ran to its end.
ClientPassDone == last'.fetch = "clients" /\ last'.outcome = "ok"
NodePassDone == last'.fetch = "nodes" /\ last'.outcome = "ok"

\* C5: a pass whose fetch fails leaves the record maps, the history and its
\* timestamp, the aggregates and the handler's published values as they
\* were, sends no signal and asks for no refresh.
C5_FailedFetchKeepsState ==
  [][last'.outcome = "fetch_failed" =>
       /\ UNCHANGED <<clients, aimesh, latest_connected_list, latest_connected,
                      clients_number, clients_list, aimesh_number, aimesh_list,
                      sensor_handler, sensor_coordinator>>
       /\ last'.signals = {}
       /\ last'.refreshed = {}]_vars

\* C5 witness: a fetch failed on a router that tracks clients, has a history
\* and has published values.
C5_Witness ==
  /\ last.outcome = "fetch_failed"
  /\ clients # <<>>
  /\ latest_connected_list # <<>>
  /\ clients_number > 0
  /\ sensor_handler # <<>>

\* C6: the connection error is logged at most once per streak of failed
\* fetches, and the recovery notice is logged at a fetch exactly when that
\* fetch succeeds and the fetch before it failed.
C6_LoggedOncePerStreak ==
  [][(last.fetch # "none" /\ last'.fetch # "none") =>
       /\ (last.outcome = "fetch_failed" /\ last'.outcome = "fetch_failed")
            => "error" \notin last'.log
       /\ ("reconnected" \in last'.log)
            <=> (last.outcome = "fetch_failed" /\ last'.outcome # "fetch_failed")]_vars

\* C7: in a client pass, a tracked connected client that is absent from the
\* snapshot stays connected exactly while now - last_activity <= consider_home
\* (so a window of 0 disconnects it), no connected callback is made for it,
\* and the connected-client count is the number of clients still connected.
C7_AbsentClientConsiderHome ==
  [][ClientPassDone =>
       /\ \A i \in DOMAIN clients :
            (clients[i].state /\ clients[i].mac \notin last'.present) =>
              /\ i \in DOMAIN clients'
              /\ clients'[i].mac = clients[i].mac
              /\ clients'[i].state
                   = (now' - clients[i].last_activity <= consider_home)
              /\ (consider_home = 0 => ~clients'[i].state)
              /\ CountIn(last'.calls, clients[i].mac) = 0
       /\ clients_number' = ConnectedCount(clients')]_vars

\* C7 witness: with a window of 0, a client that had connected (it is in the
\* history) was absent from the last pass and is now disconnected; no callback
\* was made and the count is 0.
C7_Witness ==
  /\ last.fetch = "clients" /\ last.outcome = "ok"
  /\ consider_home = 0
  /\ last.calls = <<>>
  /\ clients_number = 0
  /\ \E i \in DOMAIN clients :
       /\ clients[i].mac \notin last.present
       /\ ~clients[i].state
       /\ clients[i].last_activity < now
       /\ \E k \in DOMAIN latest_connected_list :
            latest_connected_list[k].mac = clients[i].mac

\* C8: a tracked mesh node changes only in a node pass whose snapshot holds
\* it: absent from the snapshot it keeps its place and its connected flag,
\* and a pass over an empty snapshot leaves the mesh count as it was.
C8_AbsentNodeUntouched ==
  [][/\ \A i \in DOMAIN aimesh :
          \/ NodePassDone /\ aimesh[i].mac \in last'.present
          \/ i \in DOMAIN aimesh' /\ aimesh'[i] = aimesh[i]
     /\ (NodePassDone /\ last'.present = {}) => aimesh_number' = aimesh_number
    ]_vars

\* C8 witness: a node pass ran without the tracked node in its snapshot, and
\* the node is still there and still connected.
C8_Witness ==
  /\ last.fetch = "nodes" /\ last.outcome = "ok"
  /\ \E i \in DOMAIN aimesh :
       aimesh[i].mac \notin last.present /\ aimesh[i].connected
  /\ aimesh_number = 1

\* C9: in a client pass that runs to its end, every MAC of the normalized
\* snapshot the pass works on that was not tracked is added as one record and
\* reported as new once; every tracked MAC keeps its single record, in place,
\* and is not reported as new; the device-new signal is sent exactly when a
\* MAC was new.
C9_NewAndKnownClients ==
  [][ClientPassDone =>
       LET old == Keys(clients)
           fresh == last'.present \ old
       IN /\ Keys(clients') = old \cup last'.present
          /\ \A m \in fresh :
               CountMac(clients', m) = 1 /\ CountIn(last'.new, m) = 1
          /\ \A m \in old :
               CountMac(clients', m) = 1 /\ CountIn(last'.new, m) = 0
          /\ \A i \in DOMAIN clients : clients'[i].mac = clients[i].mac
          /\ Len(last'.new) = Cardinality(fresh)
          /\ ("device_new" \in last'.signals) <=> (fresh # {})]_vars

\* C9 witness: a pass found a tracked client and a new one in its snapshot.
C9_Witness ==
  /\ last.fetch = "clients" /\ last.outcome = "ok"
  /\ Len(last.new) = 1
  /\ Len(clients) = 2
  /\ Keys(clients) = last.present
  /\ "device_new" \in last.signals

\* C10: no step but the pop of remove_trackers takes a key out of the client
\* map, and no step at all takes a key out of the mesh-node map.
C10_NoRecordRemoved ==
  [][/\ Keys(clients) \subseteq Keys(clients') \/ last'.kind = "remove_trackers"
     /\ Keys(aimesh) \subseteq Keys(aimesh')]_vars

\* C10 witness: a client pass ran to its end without one of the tracked
\* clients in its snapshot, and the client is still tracked.
C10_Witness ==
  /\ last.fetch = "clients" /\ last.outcome = "ok"
  /\ \E i \in DOMAIN clients : clients[i].mac \notin last.present
  /\ aimesh # <<>>

\* C11: the events the router has put on the event bus in a pass are one
\* per new client (device_connected) or new node (node connected) when the
\* option named after the event is True, and none when it is False or absent.
C11_EventsGatedByOption ==
  /\ (last.fetch = "clients" /\ last.outcome = "ok") =>
       IF options[DEVICE_CONNECTED] = <<TRUE>>
       THEN /\ Len(last.fired) = Len(last.new)
            /\ \A j \in DOMAIN last.fired :
                 /\ last.fired[j].event = DEVICE_CONNECTED
                 /\ last.fired[j].args.mac = last.new[j]
       ELSE last.fired = <<>>
  /\ (last.fetch = "nodes" /\ last.outcome = "ok") =>
       IF options[CONF_EVENT_NODE_CONNECTED] = <<TRUE>>
       THEN /\ Len(last.fired) = Len(last.new)
            /\ \A j \in DOMAIN last.fired :
                 /\ last.fired[j].event = CONF_EVENT_NODE_CONNECTED
                 /\ last.fired[j].args.mac = last.new[j]
       ELSE last.fired = <<>>
  /\ last.outcome \notin {"ok"} => last.fired = <<>>

\* C11 witness: with the device_connected switch on and the node switch not
\* on, a client pass found two new clients and fired an event for each.
C11_Witness ==
  /\ options[DEVICE_CONNECTED] = <<TRUE>>
  /\ options[CONF_EVENT_NODE_CONNECTED] # <<TRUE>>
  /\ last.fetch = "clients" /\ last.outcome = "ok"
  /\ Len(last.new) = 2
  /\ Len(last.fired) = 2
  /\ aimesh # <<>>

\* C12: with CONF_TRACK_DEVICES False no client record exists, the history
\* is empty and no client pass sends a device signal, while node passes run.
C12_TrackingDisabled ==
  options[CONF_TRACK_DEVICES] = <<FALSE>> =>
    /\ clients = <<>>
    /\ latest_connected_list = <<>>
    /\ last.fetch = "clients" => last.signals = {}

\* C13: outside router / access point / media bridge mode no step of setup
\* or update_all fetches a snapshot, changes the client or the node map or
\* sends a signal, and the sensor handler's AiMesh data is the empty dict.
\* (remove_trackers, with its pops and the update_devices it awaits, is not
\* part of either.)
C13_NodeModeRunsNothing ==
  [][(/\ mode \notin TrackingModes
      /\ pc # "rt_devices" /\ pc' # "rt_devices"
      /\ last'.kind # "remove_trackers") =>
       /\ clients' = clients
       /\ aimesh' = aimesh /\ aimesh' = <<>>
       /\ last'.fetch = "none"
       /\ last'.signals = {}
       /\ sensor_handler' # <<>> => get_aimesh(sensor_handler'[1], mode) = <<>>]_vars

\* C13 witness: an AiMesh node has finished its setup and is polled.
C13_Witness ==
  /\ mode \notin TrackingModes
  /\ pc = "idle"
  /\ sensor_handler # <<>>
  /\ last.kind = "setup_init"
  /\ clients = <<>> /\ aimesh = <<>>

\* C14: no step of the reconciliation core ends in an exception: every
\* connected_device call returns and every client pass either completes or
\* returns early on a fetch failure.
C14_NoFatalPath ==
  (last.fetch = "clients" \/ last.kind = "connected_device") =>
     last.outcome \in {"ok", "returned", "fetch_failed"}

\* C15: the timer's update_all and the update_devices of remove_trackers are
\* never both suspended at their client fetch.
C15_OnePassAtATime ==
  ~(pc = "all_devices" /\ tracker_pc = "rt_devices")

\* C16: a successful client pass that leaves the published (count, list,
\* latest-connected) tuple as it was sends no device-update signal.
C16_UpdatedOnlyOnChange ==
  [][(/\ last'.fetch = "clients" /\ last'.outcome = "ok"
      /\ clients_number' = clients_number
      /\ clients_list' = clients_list
      /\ latest_connected' = latest_connected)
       => "device_update" \notin last'.signals]_vars

\* The position in the map d of its k-th record that is connected.
KthConnected(d, k) ==
  CHOOSE i \in DOMAIN d :
    /\ d[i].connected_now
    /\ Cardinality({j \in 1..i : d[j].connected_now}) = k

\* The client map and the node map with the connected flag under one name.
ClientFlags == [i \in DOMAIN clients |->
                  [connected_now |-> clients[i].state, id |-> Identity(clients[i])]]
NodeFlags == [i \in DOMAIN aimesh |->
                [connected_now |-> NodeIdentity(aimesh[i]).connected,
                 id |-> NodeIdentity(aimesh[i])]]

\* C18: after a successful client pass the client count is the number of
\* records of the client map that are connected and the client list holds the
\* identities of exactly those records, in map order.
C18_ClientAggregates ==
  (last.fetch = "clients" /\ last.outcome = "ok") =>
    /\ clients_number = Cardinality({i \in DOMAIN clients : clients[i].state})
    /\ Len(clients_list) = clients_number
    /\ \A k \in DOMAIN clients_list :
         clients_list[k] = ClientFlags[KthConnected(ClientFlags, k)].id

\* C18 witness: a client pass has ended with a connected and a disconnected
\* client in the map, the disconnected one first.
C18_Witness ==
  /\ last.fetch = "clients" /\ last.outcome = "ok"
  /\ Len(clients) = 2
  /\ ~clients[1].state /\ clients[2].state
  /\ clients_number = 1

\* C19: after a successful node pass the mesh count is the number of node
\* records that are connected and the mesh list holds the identities of
\* exactly those records, in map order.
C19_MeshAggregates ==
  (last.fetch = "nodes" /\ last.outcome = "ok") =>
    /\ aimesh_number =
         Cardinality({i \in DOMAIN aimesh : NodeIdentity(aimesh[i]).connected})
    /\ Len(aimesh_list) = aimesh_number
    /\ \A k \in DOMAIN aimesh_list :
         aimesh_list[k] = NodeFlags[KthConnected(NodeFlags, k)].id

\* C17: a successful client pass of a router whose devices coordinator
\* exists asks that coordinator to refresh exactly when the router's (number,
\* list, latest-connected time, history) differs by value from the tuple last
\* published to the sensor handler, and leaves the client values the handler
\* stores as they are otherwise.
C17_RefreshOnValueChange ==
  [][(/\ last'.fetch = "clients" /\ last'.outcome = "ok"
      /\ sensor_handler # <<>>
      /\ DEVICES \in sensor_coordinator)
       => LET h == sensor_handler[1]
              published == <<h.clients_number, h.clients_list,
                             h.latest_connected, h.latest_published>>
              current == <<clients_number', clients_list', latest_connected',
                           latest_connected_list'>>
              g == sensor_handler'[1]
              stored == <<g.clients_number, g.clients_list,
                          g.latest_connected, g.latest_published>>
          IN /\ (DEVICES \in last'.refreshed) <=> (published # current)
             /\ published = current => stored = published]_vars

\* C20: in media-bridge mode a client pass works on the wired entries of
\* its snapshot only, so a client reported as not wired is never new and is
\* absent for the pass when it is tracked; in every other mode a client pass
\* works on every entry, and a node pass works on every entry in any mode.
C20_WiredFilter ==
  /\ (last.fetch = "clients" /\ last.outcome = "ok") =>
       /\ last.present = IF mode = MEDIA_BRIDGE
                         THEN last.fetched \ last.unwired
                         ELSE last.fetched
       /\ mode = MEDIA_BRIDGE =>
            \A j \in DOMAIN last.new : last.new[j] \notin last.unwired
       /\ \A j \in DOMAIN last.new : last.new[j] \in last.present
  /\ (last.fetch = "nodes" /\ last.outcome = "ok") =>
       last.present = last.fetched

\* C20 witness: in media-bridge mode a client that is tracked is reported
\* as not wired, and the pass has handled it as absent.
C20_Witness ==
  /\ mode = MEDIA_BRIDGE
  /\ last.fetch = "clients" /\ last.outcome = "ok"
  /\ \E i \in DOMAIN clients :
       /\ clients[i].mac \in last.unwired
       /\ clients[i].mac \notin last.present
       /\ ~clients[i].state
  /\ last.new # <<>>

\* C21: a pass has no suspension point between its snapshot and its
\* signals, so every state another task can find the router in lies between
\* whole passes. The client map and the history change only in the one step
\* of a client pass (the map also in the pops of remove_trackers) and the
\* client aggregates only in a client pass that runs to its end, the node map
\* and the mesh aggregates only in the one step of a node pass; and at the end
\* of a pass that ran to its end every key of the snapshot is in the map and
\* carries the pass's time, the latest call is the last entry of the history,
\* the aggregates are those of the new map and the update signal is sent,
\* whichever task is suspended beside it. (A pass that connected_device ends
\* with an exception makes its changes in one step as well.)
C21_PassIsAtomic ==
  [][/\ (\/ clients' # clients
          \/ latest_connected_list' # latest_connected_list
          \/ latest_connected' # latest_connected)
        => \/ last'.fetch = "clients" /\ last'.outcome \in {"ok", "raised"}
           \/ /\ last'.kind = "remove_trackers"
              /\ UNCHANGED <<latest_connected_list, latest_connected>>
     /\ (clients_number' # clients_number \/ clients_list' # clients_list)
        => last'.fetch = "clients" /\ last'.outcome = "ok"
     /\ (aimesh' # aimesh \/ aimesh_number' # aimesh_number
          \/ aimesh_list' # aimesh_list)
        => last'.fetch = "nodes" /\ last'.outcome = "ok"
     /\ ClientPassDone =>
          /\ Keys(clients') = Keys(clients) \cup last'.present
          /\ \A i \in DOMAIN clients' :
               clients'[i].mac \in last'.present
                 => clients'[i].last_activity = now'
          /\ last'.calls # <<>> =>
               /\ latest_connected_list' # <<>>
               /\ latest_connected_list'[Len(latest_connected_list')].mac
                    = last'.calls[Len(last'.calls)]
          /\ clients_list' = ConnectedList(clients')
          /\ clients_number' = Len(clients_list')
          /\ "device_update" \in last'.signals
          /\ UNCHANGED <<aimesh, aimesh_number, aimesh_list>>
     /\ NodePassDone =>
          /\ Keys(aimesh') = Keys(aimesh) \cup last'.present
          /\ aimesh_list' = AimeshList(aimesh')
          /\ aimesh_number' = AimeshNumber(aimesh')
          /\ "aimesh_update" \in last'.signals
          /\ UNCHANGED <<clients, clients_number, clients_list,
                         latest_connected, latest_connected_list>>]_vars

\* C21 witness: while the timer's update_all is suspended at its node fetch,
\* the update_devices of remove_trackers has run from its snapshot on: it met
\* a tracked client and added a new one, which became connected.
C21_Witness ==
  /\ last.kind = "rt_devices" /\ last.outcome = "ok"
  /\ pc = "all_nodes"
  /\ Len(clients) = 2
  /\ Len(last.new) = 1
  /\ last.calls # <<>>
  /\ "device_new" \in last.signals

\* C22: the history and the latest-connected time change only in a client
\* pass that made a connected_device call. In a client pass that runs to its
\* end, connected_device is called exactly once for every client that went
\* from not connected (or not tracked) to connected and for no other client,
\* and, when the history may hold an entry, the client called last has exactly
\* one entry in it. A node pass, whether a node appears or becomes connected
\* in it, leaves the history, entry by entry, and the latest-connected time
\* as they were.
C22_HistoryOnlyByClients ==
  [][/\ (\/ latest_connected_list' # latest_connected_list
          \/ latest_connected' # latest_connected)
        => last'.fetch = "clients" /\ last'.calls # <<>>
     /\ last'.fetch = "nodes" =>
          /\ latest_connected_list' = latest_connected_list
          /\ latest_connected' = latest_connected
          /\ last'.calls = <<>> /\ last'.evicted = <<>>
     /\ ClientPassDone =>
          /\ \A m \in Keys(clients') :
               LET was == \E i \in DOMAIN clients :
                            clients[i].mac = m /\ clients[i].state
                   is == \E i \in DOMAIN clients' :
                           clients'[i].mac = m /\ clients'[i].state
               IN CountIn(last'.calls, m) = IF ~was /\ is THEN 1 ELSE 0
          /\ \A j \in DOMAIN last'.calls : last'.calls[j] \in Keys(clients')
          /\ (last'.calls # <<>> /\ max_latest > 0) =>
               Cardinality({i \in DOMAIN latest_connected_list' :
                   latest_connected_list'[i].mac
                     = last'.calls[Len(last'.calls)]}) = 1]_vars

\* C22 witness: a node pass has added a node that is connected, after a
\* client pass had recorded a client in the history; the entry and the
\* latest-connected time are still there.
C22_Witness ==
  /\ last.fetch = "nodes" /\ last.outcome = "ok"
  /\ last.new # <<>>
  /\ aimesh_number >= 1
  /\ Len(latest_connected_list) = 1
  /\ latest_connected # NoStamp
  /\ \E i \in DOMAIN clients :
       clients[i].state /\ clients[i].mac = latest_connected_list[1].mac

\* C23: when an update_all cycle has ended with both of its fetches
\* answered (the node pass ran to its end and the error flag, which only a
\* failed fetch sets and only the client pass of the same cycle clears, is
\* down), the mesh number and list the sensor handler returns to the AiMesh
\* coordinator are the aggregates that cycle's update_nodes has recomputed.
C23_MeshPublishedAfterCycle ==
  (/\ last.kind = "update_nodes" /\ last.outcome = "ok"
   /\ ~connect_error
   /\ sensor_handler # <<>>
   /\ AIMESH \in sensor_coordinator)
    => get_aimesh(sensor_handler[1], mode)
         = <<[number |-> aimesh_number, list |-> aimesh_list]>>

====
